---- MODULE Spec2Model ----
(***************************************************************************)
(* Sample autocorrelation and the Ljung-Box / Box-Pierce portmanteau tests *)
(* of ljungbox.py: sac, ljungbox, boxpierce and lbqtest.                   *)
(*                                                                         *)
(* Numbers are exact: a value is a reduced fraction or one of the IEEE     *)
(* specials NaN, +Inf, -Inf that numpy's division produces instead of an   *)
(* exception.  Rounding of float64 is not modelled.                        *)
(***************************************************************************)
EXTENDS Integers, Sequences, FiniteSets, TLC

VARIABLES
    entry,      \* the public function the caller invoked
    pc,         \* position of the running call
    x,          \* the signal
    lags,       \* lbqtest's lag list (also the list handed to sac in list mode)
    method,     \* lbqtest's method selector
    ppf,        \* scipy.stats.chi2.ppf(1-alpha, .) for the alpha of the call
    findq,      \* the accumulator lbqtest selected / the caller invoked
    i,          \* lbqtest's loop index (number of lags consumed)
    Q, pV, cV,  \* lbqtest's result arrays
    h,          \* lbqtest's rejection flags
    lag,        \* the accumulator's argument `lags`
    n,          \* the accumulator's n = len(x)
    k,          \* the accumulator's loop variable
    Qa,         \* the accumulator's running Q
    ret,        \* value returned by the accumulator / by sac
    trace,      \* invocations made so far, in order
    kArg,       \* the lag handed to sac by a direct call
    shift,      \* constant added to the signal for the second direct call
    retShift    \* sac's result on the shifted signal

vars == <<entry, pc, x, lags, method, ppf, findq, i, Q, pV, cV, h, lag, n, k,
          Qa, ret, trace, kArg, shift, retShift>>

----------------------------------------------------------------------------
(* Bounds of the model *)

MaxN == 3

MaxLag == 3

MaxLagsLen == 2

----------------------------------------------------------------------------
(* Exact arithmetic with the IEEE special values *)

Abs(a) == IF a < 0 THEN -a ELSE a

RECURSIVE GCD(_, _)
GCD(a, b) == IF b = 0 THEN a ELSE GCD(b, a % b)

\* the fraction num/den, den # 0, reduced and with a positive denominator
R(num, den) ==
    LET s == IF den < 0 THEN -1 ELSE 1
        g == GCD(Abs(num), Abs(den))
    IN  [t |-> "num", n |-> (s * num) \div g, d |-> (s * den) \div g]

NaN == [t |-> "nan", n |-> 0, d |-> 1]

PInf == [t |-> "inf", n |-> 1, d |-> 1]

NInf == [t |-> "inf", n |-> -1, d |-> 1]

Zero == R(0, 1)

IsNum(a) == a.t = "num"

IsNaN(a) == a.t = "nan"

Sign(a) == IF a.n > 0 THEN 1 ELSE IF a.n < 0 THEN -1 ELSE 0

Signed(s) == IF s > 0 THEN PInf ELSE NInf

Neg(a) == [a EXCEPT !.n = -a.n]

Add(a, b) ==
    IF IsNaN(a) \/ IsNaN(b) THEN NaN
    ELSE IF IsNum(a) /\ IsNum(b) THEN R(a.n * b.d + b.n * a.d, a.d * b.d)
    ELSE IF IsNum(a) THEN b
    ELSE IF IsNum(b) THEN a
    ELSE IF a = b THEN a ELSE NaN

Sub(a, b) == Add(a, Neg(b))

Mul(a, b) ==
    IF IsNaN(a) \/ IsNaN(b) THEN NaN
    ELSE IF IsNum(a) /\ IsNum(b) THEN R(a.n * b.n, a.d * b.d)
    ELSE IF Sign(a) * Sign(b) = 0 THEN NaN
    ELSE Signed(Sign(a) * Sign(b))

\* numpy float64 true division: x/0 is +-Inf, 0/0 is NaN, no exception.
\* The divisors of this program are never negative zero.
Div(a, b) ==
    IF IsNaN(a) \/ IsNaN(b) THEN NaN
    ELSE IF IsNum(a) /\ IsNum(b)
         THEN IF b.n # 0 THEN R(a.n * b.d, a.d * b.n)
              ELSE IF a.n = 0 THEN NaN ELSE Signed(Sign(a))
    ELSE IF IsNum(a) THEN Zero
    ELSE IF IsNum(b) THEN Signed(Sign(a) * (IF b.n < 0 THEN -1 ELSE 1))
    ELSE NaN

\* IEEE comparison: every comparison with NaN is false
Gt(a, b) ==
    IF IsNaN(a) \/ IsNaN(b) THEN FALSE
    ELSE IF IsNum(a) /\ IsNum(b) THEN a.n * b.d > b.n * a.d
    ELSE IF IsNum(a) THEN Sign(b) < 0
    ELSE IF IsNum(b) THEN Sign(a) > 0
    ELSE Sign(a) > Sign(b)

Ge(a, b) == ~IsNaN(a) /\ ~IsNaN(b) /\ (Gt(a, b) \/ a = b)

----------------------------------------------------------------------------
(* numpy on one-dimensional arrays *)

RECURSIVE npSum(_)
npSum(a) == IF a = <<>> THEN Zero ELSE Add(npSum(SubSeq(a, 1, Len(a) - 1)), a[Len(a)])

\* a - c for an array a and a scalar c
SubScalar(a, c) == [j \in 1..Len(a) |-> Sub(a[j], c)]

\* a * b elementwise, for arrays of the same length
MulArr(a, b) == [j \in 1..Len(a) |-> Mul(a[j], b[j])]

npMean(a) == Div(npSum(a), R(Len(a), 1))

npVar(a) ==
    LET dev == SubScalar(a, npMean(a)) IN npMean(MulArr(dev, dev))

\* x[:-k] for k > 0
SliceHead(a, kk) == IF kk >= Len(a) THEN <<>> ELSE SubSeq(a, 1, Len(a) - kk)

\* x[k:] for k > 0
SliceTail(a, kk) == IF kk >= Len(a) THEN <<>> ELSE SubSeq(a, kk + 1, Len(a))

----------------------------------------------------------------------------
(* sac: the sample autocorrelation estimator *)

\* a slip: the mean is not subtracted from the shifted copy
sacNumeratorHalfCentred(a, kk) ==
    LET mx == npMean(a)
    IN  IF kk = 0
        THEN npSum(MulArr(SubScalar(a, mx), SubScalar(a, mx)))
        ELSE npSum(MulArr(SubScalar(SliceHead(a, kk), mx), SliceTail(a, kk)))

\* a slip: the mean is not subtracted at all
sacNumeratorUncentred(a, kk) ==
    IF kk = 0
    THEN npSum(MulArr(a, a))
    ELSE npSum(MulArr(SliceHead(a, kk), SliceTail(a, kk)))

\* the numerator N of sac for a scalar lag
sacNumerator(a, kk) ==
    LET mx == npMean(a)
    IN  IF kk = 0
        THEN npSum(MulArr(SubScalar(a, mx), SubScalar(a, mx)))
        ELSE npSum(MulArr(SubScalar(SliceHead(a, kk), mx),
                          SubScalar(SliceTail(a, kk), mx)))

\* a slip: the variance is not multiplied by len(x)
sacDenominatorVarOnly(a) == npVar(a)

\* the denominator D of sac
sacDenominator(a) == Mul(R(Len(a), 1), npVar(a))

\* sac(x, k) for a scalar k >= 0: iterating k fails, the scalar path runs
sac(a, kk) == Div(sacNumerator(a, kk), sacDenominator(a))

\* sac(x, k) for a list k: one scalar call per entry, in order
sacList(a, ks) == [j \in 1..Len(ks) |-> sac(a, ks[j])]

----------------------------------------------------------------------------
(* The accumulators and the driver, as operators on their local values *)

\* a slip: the term is divided by n instead of n-k
ljungboxTermUnweighted(a, nn, kk) == Div(Mul(sac(a, kk), sac(a, kk)), R(nn, 1))

\* the term ljungbox adds for sub-lag k
ljungboxTerm(a, nn, kk) == Div(Mul(sac(a, kk), sac(a, kk)), R(nn - kk, 1))

\* ljungbox's final scaling Q = n*(n+2)*Q
ljungboxScale(nn, q) == Mul(R(nn * (nn + 2), 1), q)

\* a slip: the autocorrelation is not squared
boxpierceTermUnsquared(a, kk) == sac(a, kk)

\* the term boxpierce adds for sub-lag k
boxpierceTerm(a, kk) == Mul(sac(a, kk), sac(a, kk))

\* a slip: boxpierce scaled as ljungbox is
boxpierceScaleAsLjungbox(nn, q) == Mul(R(nn * (nn + 2), 1), q)

\* boxpierce's final scaling Q = n*Q
boxpierceScale(nn, q) == Mul(R(nn, 1), q)

\* a slip: range(1, lags)
accRangeExclusive(ll) == 1..(ll - 1)

\* the sub-lags an accumulator visits: range(1, lags+1)
accRange(ll) == 1..ll

\* lbqtest's choice of findq
selectFindq(m) == IF m = "lb" THEN "ljungbox" ELSE "boxpierce"

\* np.zeros(len)
npZeros(len) == [j \in 1..len |-> Zero]

\* 1.0 - scipy.stats.chi2.cdf(q, df): the library's value, kept symbolic
chi2sf(q, df) == [t |-> "sf", q |-> q, df |-> df]

\* a slip: h = Q >= cV
rejectsOrEqual(q, c) == Ge(q, c)

\* one entry of h = Q > cV
rejects(q, c) == Gt(q, c)

\* h = Q > cV
rejectFlags(qs, cs) == [j \in 1..Len(qs) |-> rejects(qs[j], cs[j])]

----------------------------------------------------------------------------
(* Inputs *)

Vals == {R(0, 1), R(1, 1), R(3, 1)}

Signals == UNION {[1..len -> Vals] : len \in 1..MaxN}

\* the signals handed to lbqtest: two levels
DriverSignals == UNION {[1..len -> {R(0, 1), R(1, 1)}] : len \in 1..MaxN}

LagSeqs == UNION {[1..len -> 1..MaxLag] : len \in 0..MaxLagsLen}

Methods == {"lb", "bp", "ljung-box"}

Shifts == {R(-2, 1), R(1, 2), R(5, 1)}

\* candidate quantile functions df |-> chi2.ppf(1-alpha, df), increasing in df
PpfTables == {[df \in 1..MaxLag |-> Mul(c, R(df, 1))] : c \in {R(1, 2), R(15, 8)}}

NoPpf == [df \in 1..MaxLag |-> Zero]

Shifted(a, c) == [j \in 1..Len(a) |-> Add(a[j], c)]

----------------------------------------------------------------------------
(* The calls *)

Idle ==
    /\ findq = "none" /\ i = 0 /\ Q = <<>> /\ pV = <<>> /\ cV = <<>>
    /\ h = <<>> /\ lag = 0 /\ n = 0 /\ k = 0 /\ Qa = Zero /\ ret = Zero
    /\ trace = <<>> /\ retShift = Zero

InitSac ==
    /\ entry = "sac" /\ pc = "sac"
    /\ x \in Signals /\ kArg \in 0..MaxLag /\ shift \in Shifts
    /\ lags = <<>> /\ method = "lb" /\ ppf = NoPpf
    /\ Idle

InitSacList ==
    /\ entry = "sac_list" /\ pc = "sac_list"
    /\ x \in Signals /\ lags \in LagSeqs
    /\ kArg = 0 /\ shift = Zero /\ method = "lb" /\ ppf = NoPpf
    /\ Idle

InitAcc ==
    /\ entry \in {"ljungbox", "boxpierce"} /\ pc = entry
    /\ x \in Signals
    /\ lags = <<>> /\ kArg = 0 /\ shift = Zero /\ method = "lb" /\ ppf = NoPpf
    /\ findq = entry /\ lag \in 1..MaxLag
    /\ i = 0 /\ Q = <<>> /\ pV = <<>> /\ cV = <<>>
    /\ h = <<>> /\ n = 0 /\ k = 0 /\ Qa = Zero /\ ret = Zero
    /\ trace = <<>> /\ retShift = Zero

InitLbqtest ==
    /\ entry = "lbqtest" /\ pc = "lbqtest"
    /\ x \in DriverSignals /\ lags \in LagSeqs /\ method \in Methods
    /\ ppf \in PpfTables
    /\ kArg = 0 /\ shift = Zero
    /\ Idle

Init == InitSac \/ InitSacList \/ InitAcc \/ InitLbqtest

\* a direct call sac(x, k) with a scalar k
SacCall ==
    /\ pc = "sac"
    /\ ret' = sac(x, kArg)
    /\ trace' = Append(trace, [op |-> "sac", arg |-> kArg])
    /\ pc' = "sac_shifted"
    /\ UNCHANGED <<entry, x, lags, method, ppf, findq, i, Q, pV, cV, h, lag,
                   n, k, Qa, kArg, shift, retShift>>

\* the same call on the signal x + c
SacCallShifted ==
    /\ pc = "sac_shifted"
    /\ retShift' = sac(Shifted(x, shift), kArg)
    /\ trace' = Append(trace, [op |-> "sac", arg |-> kArg])
    /\ pc' = "done"
    /\ UNCHANGED <<entry, x, lags, method, ppf, findq, i, Q, pV, cV, h, lag,
                   n, k, Qa, ret, kArg, shift>>

\* a direct call sac(x, k) with a list k
SacListCall ==
    /\ pc = "sac_list"
    /\ ret' = sacList(x, lags)
    /\ trace' = [j \in 1..Len(lags) |-> [op |-> "sac", arg |-> lags[j]]]
    /\ pc' = "done"
    /\ UNCHANGED <<entry, x, lags, method, ppf, findq, i, Q, pV, cV, h, lag,
                   n, k, Qa, kArg, shift, retShift>>

\* where an accumulator returns to
AccReturnPc == IF entry = "lbqtest" THEN "lbq_store" ELSE "done"

\* ljungbox: n = len(x); Q = 0
LjungboxStart ==
    /\ pc = "ljungbox"
    /\ n' = Len(x) /\ Qa' = Zero /\ k' = 0
    /\ trace' = Append(trace, [op |-> "ljungbox", arg |-> lag])
    /\ pc' = "ljungbox_loop"
    /\ UNCHANGED <<entry, x, lags, method, ppf, findq, i, Q, pV, cV, h, lag,
                   ret, kArg, shift, retShift>>

\* ljungbox: one iteration of the loop over range(1, lags+1)
LjungboxIter ==
    /\ pc = "ljungbox_loop"
    /\ k + 1 \in accRange(lag)
    /\ k' = k + 1
    /\ Qa' = Add(Qa, ljungboxTerm(x, n, k + 1))
    /\ trace' = Append(trace, [op |-> "sac", arg |-> k + 1])
    /\ UNCHANGED <<entry, pc, x, lags, method, ppf, findq, i, Q, pV, cV, h,
                   lag, n, ret, kArg, shift, retShift>>

\* ljungbox: Q = n*(n+2)*Q; return Q
LjungboxReturn ==
    /\ pc = "ljungbox_loop"
    /\ k + 1 \notin accRange(lag)
    /\ Qa' = ljungboxScale(n, Qa)
    /\ ret' = Qa'
    /\ pc' = AccReturnPc
    /\ UNCHANGED <<entry, x, lags, method, ppf, findq, i, Q, pV, cV, h, lag,
                   n, k, trace, kArg, shift, retShift>>

\* boxpierce: n = len(x); Q = 0
BoxpierceStart ==
    /\ pc = "boxpierce"
    /\ n' = Len(x) /\ Qa' = Zero /\ k' = 0
    /\ trace' = Append(trace, [op |-> "boxpierce", arg |-> lag])
    /\ pc' = "boxpierce_loop"
    /\ UNCHANGED <<entry, x, lags, method, ppf, findq, i, Q, pV, cV, h, lag,
                   ret, kArg, shift, retShift>>

\* boxpierce: one iteration of the loop over range(1, lags+1)
BoxpierceIter ==
    /\ pc = "boxpierce_loop"
    /\ k + 1 \in accRange(lag)
    /\ k' = k + 1
    /\ Qa' = Add(Qa, boxpierceTerm(x, k + 1))
    /\ trace' = Append(trace, [op |-> "sac", arg |-> k + 1])
    /\ UNCHANGED <<entry, pc, x, lags, method, ppf, findq, i, Q, pV, cV, h,
                   lag, n, ret, kArg, shift, retShift>>

\* boxpierce: Q = n*Q; return Q
BoxpierceReturn ==
    /\ pc = "boxpierce_loop"
    /\ k + 1 \notin accRange(lag)
    /\ Qa' = boxpierceScale(n, Qa)
    /\ ret' = Qa'
    /\ pc' = AccReturnPc
    /\ UNCHANGED <<entry, x, lags, method, ppf, findq, i, Q, pV, cV, h, lag,
                   n, k, trace, kArg, shift, retShift>>

\* lbqtest: select findq, allocate Q, pV, cV
LbqtestStart ==
    /\ pc = "lbqtest"
    /\ findq' = selectFindq(method)
    /\ Q' = npZeros(Len(lags)) /\ pV' = npZeros(Len(lags))
    /\ cV' = npZeros(Len(lags))
    /\ i' = 0
    /\ pc' = "lbq_loop"
    /\ UNCHANGED <<entry, x, lags, method, ppf, h, lag, n, k, Qa, ret, trace,
                   kArg, shift, retShift>>

\* lbqtest: the next (i, lag) of enumerate(lags); call findq(x, lag)
LbqtestCall ==
    /\ pc = "lbq_loop"
    /\ i < Len(lags)
    /\ i' = i + 1
    /\ lag' = lags[i + 1]
    /\ pc' = findq
    /\ UNCHANGED <<entry, x, lags, method, ppf, findq, Q, pV, cV, h, n, k, Qa,
                   ret, trace, kArg, shift, retShift>>

\* lbqtest: Q[i], pV[i], cV[i] from the value findq returned
LbqtestStore ==
    /\ pc = "lbq_store"
    /\ Q' = [Q EXCEPT ![i] = ret]
    /\ pV' = [pV EXCEPT ![i] = chi2sf(ret, lag)]
    /\ cV' = [cV EXCEPT ![i] = ppf[lag]]
    /\ pc' = "lbq_loop"
    /\ UNCHANGED <<entry, x, lags, method, ppf, findq, i, h, lag, n, k, Qa,
                   ret, trace, kArg, shift, retShift>>

\* lbqtest: h = Q > cV; return h, pV, Q, cV
LbqtestReturn ==
    /\ pc = "lbq_loop"
    /\ i >= Len(lags)
    /\ h' = rejectFlags(Q, cV)
    /\ pc' = "done"
    /\ UNCHANGED <<entry, x, lags, method, ppf, findq, i, Q, pV, cV, lag, n,
                   k, Qa, ret, trace, kArg, shift, retShift>>

Next ==
    \/ SacCall
    \/ SacCallShifted
    \/ SacListCall
    \/ LjungboxStart
    \/ LjungboxIter
    \/ LjungboxReturn
    \/ BoxpierceStart
    \/ BoxpierceIter
    \/ BoxpierceReturn
    \/ LbqtestStart
    \/ LbqtestCall
    \/ LbqtestStore
    \/ LbqtestReturn

Spec == Init /\ [][Next]_vars

----------------------------------------------------------------------------
(* The statistics as the specification writes them: sums over indices *)

One == R(1, 1)

NonConstant(a) == \E p, q \in 1..Len(a) : a[p] # a[q]

Returned == pc = "done"

SupportedMethods == {"lb", "bp"}

Accumulators == {"ljungbox", "boxpierce"}

RECURSIVE SumTo(_, _)
SumTo(a, m) == IF m <= 0 THEN Zero ELSE Add(SumTo(a, m - 1), a[m])

SpecMean(a) == Div(SumTo(a, Len(a)), R(Len(a), 1))

\* sum over p = 1..m of (a[p] - mean)(a[p+kk] - mean)
RECURSIVE SpecCov(_, _, _)
SpecCov(a, kk, m) ==
    IF m <= 0 THEN Zero
    ELSE Add(SpecCov(a, kk, m - 1),
             Mul(Sub(a[m], SpecMean(a)), Sub(a[m + kk], SpecMean(a))))

SpecNumerator(a, kk) == SpecCov(a, kk, Len(a) - kk)

\* N x population variance
SpecDenominator(a) ==
    Mul(R(Len(a), 1), Div(SpecCov(a, 0, Len(a)), R(Len(a), 1)))

SpecR(a, kk) == Div(SpecNumerator(a, kk), SpecDenominator(a))

RECURSIVE SpecLBSum(_, _)
SpecLBSum(a, m) ==
    IF m <= 0 THEN Zero
    ELSE Add(SpecLBSum(a, m - 1),
             Div(Mul(SpecR(a, m), SpecR(a, m)), R(Len(a) - m, 1)))

\* N(N+2) x sum_{k=1..m} r(k)^2 / (N-k)
SpecLB(a, m) == Mul(R(Len(a) * (Len(a) + 2), 1), SpecLBSum(a, m))

RECURSIVE SpecBPSum(_, _)
SpecBPSum(a, m) ==
    IF m <= 0 THEN Zero
    ELSE Add(SpecBPSum(a, m - 1), Mul(SpecR(a, m), SpecR(a, m)))

\* N x sum_{k=1..m} r(k)^2
SpecBP(a, m) == Mul(R(Len(a), 1), SpecBPSum(a, m))

\* a > b on the reals; false when either side is NaN
StrictlyGreater(a, b) == IsNum(a) /\ IsNum(b) /\ a.n * b.d > b.n * a.d

IsPrefix(s, t) == Len(s) <= Len(t) /\ SubSeq(t, 1, Len(s)) = s

\* the invocations of one accumulator call: the call, then sac at 1..m in order
CallEvents(f, m) ==
    <<[op |-> f, arg |-> m]>> \o [p \in 1..m |-> [op |-> "sac", arg |-> p]]

\* the invocations of one driver call over the lag list ls
RECURSIVE ExpectedTrace(_, _)
ExpectedTrace(f, ls) ==
    IF ls = <<>> THEN <<>>
    ELSE ExpectedTrace(f, SubSeq(ls, 1, Len(ls) - 1)) \o CallEvents(f, ls[Len(ls)])

SacEvents(tr) == {p \in 1..Len(tr) : tr[p].op = "sac"}

AccEvents(tr) == {p \in 1..Len(tr) : tr[p].op \in Accumulators}

RECURSIVE SumSeq(_)
SumSeq(ls) == IF ls = <<>> THEN 0 ELSE SumSeq(SubSeq(ls, 1, Len(ls) - 1)) + ls[Len(ls)]

\* a bound on the steps a driver call still has to take: it is a natural
\* number and every step lowers it, so the call ends
PcRank ==
    CASE pc = "done" -> 0
      [] pc = "lbq_loop" -> 1
      [] pc \in {"lbq_store", "lbqtest"} -> 2
      [] pc \in {"ljungbox_loop", "boxpierce_loop"} -> 3
      [] OTHER -> 4

\* the positions of a driver call that have a step to take: each has an
\* action for either outcome of its test
Running ==
    pc \in {"lbqtest", "lbq_loop", "lbq_store", "ljungbox", "ljungbox_loop",
            "boxpierce", "boxpierce_loop"}

StepsLeft ==
    4 * (Len(lags) - i)
    + 4 * (Len(ExpectedTrace(selectFindq(method), lags)) - Len(trace))
    + PcRank

----------------------------------------------------------------------------
(* The claims *)

\* C1: lbqtest called with a method selector other than 'lb' and 'bp' raises
\* an error and returns no result; it never completes with Box-Pierce values.
C1_UnsupportedMethodRaises ==
    (entry = "lbqtest" /\ method \notin SupportedMethods) => ~Returned

\* C2: ljungbox and boxpierce called with lags >= len(x) raise an error;
\* they never return a statistic for such a depth.
C2_DeepLagRaises ==
    (entry \in Accumulators /\ lag >= Len(x)) => ~Returned

\* C3: in the result of lbqtest, h[j] is true exactly when Q[j] > cV[j],
\* strictly: a statistic equal to its critical value does not reject.
C3_RejectionIsStrict ==
    (entry = "lbqtest" /\ Returned) =>
        /\ Len(h) = Len(lags)
        /\ \A p \in 1..Len(lags) : h[p] = StrictlyGreater(Q[p], cV[p])

C3_Witness ==
    /\ entry = "lbqtest" /\ Returned
    /\ \E p, q \in 1..Len(lags) :
          /\ Q[p] = cV[p] /\ ~h[p]
          /\ h[q]

\* C4: lbqtest returns four sequences as long as the lag list, and Q[j] is the
\* selected accumulator's statistic of (x, lags[j]) alone, whatever the order
\* of the list and whatever its other entries.
C4_StatisticPerLag ==
    (entry = "lbqtest" /\ Returned) =>
        /\ Len(Q) = Len(lags) /\ Len(pV) = Len(lags)
        /\ Len(cV) = Len(lags) /\ Len(h) = Len(lags)
        /\ \A p \in 1..Len(lags) :
              /\ method = "lb" => Q[p] = SpecLB(x, lags[p])
              /\ method = "bp" => Q[p] = SpecBP(x, lags[p])
        /\ \A p, q \in 1..Len(lags) :
              lags[p] = lags[q] =>
                  Q[p] = Q[q] /\ pV[p] = pV[q] /\ cV[p] = cV[q] /\ h[p] = h[q]

C4_Witness ==
    /\ entry = "lbqtest" /\ Returned /\ method = "bp"
    /\ Len(lags) = 2 /\ lags[1] > lags[2] /\ lags[1] < Len(x)
    /\ IsNum(Q[1]) /\ IsNum(Q[2]) /\ Q[1] # Q[2]

\* C5 as claimed: sac(x, 0) is exactly 1 for every signal, constant signals
\* and signals of length 1 included.
C5_LagZeroIsOne ==
    (entry = "sac" /\ kArg = 0 /\ Returned) => ret = One

\* C5 amended: sac(x, 0) is 1 for every signal that is not constant, the
\* numerator being equal to the denominator; for a constant signal both are
\* 0 and the result is NaN.
C5_LagZeroIsOneUnlessConstant ==
    (entry = "sac" /\ kArg = 0 /\ Returned) =>
        /\ sacNumerator(x, 0) = sacDenominator(x)
        /\ NonConstant(x) => ret = One
        /\ ~NonConstant(x) => ret = NaN

C5_Witness ==
    /\ entry = "sac" /\ kArg = 0 /\ Returned
    /\ NonConstant(x) /\ Len(x) = MaxN /\ ret = One

\* C6: sac at lag k < N gives the same value on x and on x + c.
C6_ShiftInvariant ==
    (entry = "sac" /\ kArg < Len(x) /\ Returned) => retShift = ret

C6_Witness ==
    /\ entry = "sac" /\ Returned
    /\ kArg > 0 /\ kArg < Len(x)
    /\ shift # Zero /\ IsNum(ret) /\ ret # Zero /\ retShift = ret

\* C7 as claimed: for every signal and 1 <= lags < N, the values ljungbox and
\* boxpierce return are >= 0.
C7_NonNegative ==
    (entry \in Accumulators /\ Returned /\ lag >= 1 /\ lag < Len(x)) =>
        Ge(ret, Zero)

\* C7 amended: for every signal that is not constant and 1 <= lags < N, the
\* values ljungbox and boxpierce return are >= 0; for a constant signal they
\* are NaN.
C7_NonNegativeUnlessConstant ==
    (entry \in Accumulators /\ Returned /\ lag >= 1 /\ lag < Len(x)) =>
        /\ NonConstant(x) => Ge(ret, Zero)
        /\ ~NonConstant(x) => ret = NaN

C7_Witness ==
    /\ entry = "boxpierce" /\ Returned
    /\ lag >= 2 /\ lag < Len(x) /\ NonConstant(x)
    /\ Gt(ret, Zero) /\ Gt(Zero, sac(x, 1))

\* C8: for 1 <= lags < N, ljungbox(x, lags) is
\* N(N+2) x sum_{k=1..lags} r(k)^2 / (N-k), r(k) having the numerator
\* sum_{p} (x_p - mean)(x_{p+k} - mean) and the denominator N x variance.
C8_LjungBoxFormula ==
    (entry = "ljungbox" /\ Returned /\ lag >= 1 /\ lag < Len(x)) =>
        ret = SpecLB(x, lag)

C8_Witness ==
    /\ entry = "ljungbox" /\ Returned
    /\ lag >= 2 /\ lag < Len(x)
    /\ IsNum(ret) /\ Gt(ret, Zero)

\* C9: one call of lbqtest invokes the accumulator once per index, in input
\* order, and within the invocation for lags[j] invokes sac once for each
\* sub-lag 1..lags[j] in increasing order and for no other lag: sum(lags)
\* invocations of sac in all, after which the call returns.
C9_InvocationOrder ==
    /\ [](entry = "lbqtest" =>
            /\ IsPrefix(trace, ExpectedTrace(selectFindq(method), lags))
            /\ Returned =>
                  /\ trace = ExpectedTrace(selectFindq(method), lags)
                  /\ Cardinality(SacEvents(trace)) = SumSeq(lags)
                  /\ Cardinality(AccEvents(trace)) = Len(lags)
            /\ Returned \/ Running
            /\ StepsLeft >= 0)
    /\ [][entry = "lbqtest" => StepsLeft' < StepsLeft]_vars

C9_Witness ==
    /\ entry = "lbqtest" /\ Returned
    /\ Len(lags) = 2 /\ lags[1] > lags[2]
    /\ Cardinality(SacEvents(trace)) = lags[1] + lags[2]

\* C10: for a signal that is not constant and 0 <= k < N, sac(x, k) lies in
\* [-1, 1]: the numerator's absolute value never exceeds the denominator.
C10_WithinUnitInterval ==
    (entry = "sac" /\ Returned /\ NonConstant(x) /\ kArg < Len(x)) =>
        /\ IsNum(ret)
        /\ Ge(ret, Neg(One)) /\ Ge(One, ret)
        /\ Ge(sacDenominator(x), sacNumerator(x, kArg))
        /\ Ge(sacDenominator(x), Neg(sacNumerator(x, kArg)))

C10_Witness ==
    /\ entry = "sac" /\ Returned /\ NonConstant(x)
    /\ kArg > 0 /\ kArg < Len(x)
    /\ Gt(Zero, ret) /\ Ge(ret, Neg(One))

====
